---- MODULE Spec2Model ----
(***************************************************************************)
(* Model of VCA (version-control-application): the version compatibility   *)
(* graph (GraphAsyncVersion / WebVersion), the endpoint records (WebAPI),  *)
(* their chain walks and URL resolution, the request gate (version_control *)
(* decorator and VersionControlMixin.dispatch), the app versions           *)
(* (AppVersion) and the administration of all of them.                     *)
(*                                                                         *)
(* A Python call either returns a value or raises: it is modelled as a     *)
(* record [exc, val], exc = "" for a normal return.  An optional field     *)
(* (null=True) is a set with at most one element: {} is None.              *)
(***************************************************************************)
EXTENDS Integers, Sequences, FiniteSets, TLC

VARIABLES now, web_versions, web_apis, version_controller, version_name,
          app_versions, result

vars == <<now, web_versions, web_apis, version_controller, version_name, app_versions, result>>

\* now                 django.utils.timezone.now()
\* web_versions        the WebVersion table, by version_id
\* web_apis            the WebAPI table, by view code
\* app_versions        the AppVersion table, by version_id
\* version_controller  the VersionControlMixin object a decorator closes over
\* version_name        the version_name of the version row under study
\* result              the value of the call just made, until its caller
\*                     takes it

\* ------------------------------------------------------------------ bounds

\* Largest version_id (primary key) of a WebVersion row.
MaxVersion == 3
\* Largest number of rows in the two many-to-many edge tables together.
MaxEdges == 2
\* The clock runs over 0..MaxTime.
MaxTime == 1

VersionIds == 1..MaxVersion
Times == 0..MaxTime

\* ------------------------------------------------------- Python call results

Ok(v) == [exc |-> "", val |-> v]
Raise(e) == [exc |-> e, val |-> FALSE]

NoResult == [op |-> "none"]

\* ------------------------------------------------ DepreciableObjectMixin

\* deprecated_at is not None and now() > deprecated_at
_is_deprecated_time(obj) == \E t \in obj.deprecated_at : now > t

\* ------------------------------------------------------ GraphAsyncVersion

\* Names an instance of WebVersion answers to: the fields and methods of
\* DepreciableObjectMixin, BaseVersion, GraphAsyncVersion and WebVersion.
WebVersionAttrs ==
    { "deprecated_at", "_is_deprecated_time", "deprecated", "get_deprecated_time",
      "show_deprecated_time", "show_deprecated", "deprecate", "republish",
      "version_id", "version_name", "name", "added_feature", "details",
      "previous_versions", "incompatible_previous_versions", "next_versions",
      "incompatible_next_versions", "all_previous_version", "all_next_version",
      "available", "get_incompatible_previous_versions", "coming_soon",
      "get_previous_versions", "show_coming_soon", "weblog_url", "panel_url",
      "login_url", "register_url", "api_prefix", "get_complete_prefix",
      "get_version_uri", "views", "base_depended_by" }

get_previous_versions(v) == web_versions[v].previous_versions

get_incompatible_previous_versions(v) == web_versions[v].incompatible_previous_versions

RECURSIVE coming_soon(_)
RECURSIVE coming_soon_by_timestamp(_)

\* GraphAsyncVersion.deprecated: super().deprecated() and not self.coming_soon()
deprecated(v) == _is_deprecated_time(web_versions[v]) /\ ~coming_soon(v)

\* coming_soon with the incompatible predecessors tested by their timestamp
\* alone instead of by deprecated().
coming_soon_by_timestamp(v) ==
    \/ \E p \in get_previous_versions(v) : coming_soon_by_timestamp(p)
    \/ \E p \in get_incompatible_previous_versions(v) :
          ~_is_deprecated_time(web_versions[p])

\* GraphAsyncVersion.coming_soon: the two loops return True at the first hit,
\* False when neither finds one.
coming_soon(v) ==
    \/ \E p \in get_previous_versions(v) : coming_soon(p)
    \/ \E p \in get_incompatible_previous_versions(v) : ~deprecated(p)

\* GraphAsyncVersion.available.  The loop body reads version.deprecated_show
\* first; a name the instance does not answer to raises AttributeError.
available(v) ==
    IF deprecated(v) \/ coming_soon(v) THEN Ok(FALSE)
    ELSE IF get_incompatible_previous_versions(v) = {} THEN Ok(TRUE)
    ELSE IF "deprecated_show" \notin WebVersionAttrs THEN Raise("AttributeError")
    ELSE Ok(FALSE)

\* --------------------------------------------------- administrative surface

EdgeCount(vs) ==
    LET RECURSIVE Sum(_)
        Sum(S) == IF S = {} THEN 0
                  ELSE LET v == CHOOSE x \in S : TRUE
                       IN Cardinality(vs[v].previous_versions)
                          + Cardinality(vs[v].incompatible_previous_versions)
                          + Sum(S \ {v})
    IN Sum(DOMAIN vs)

\* WebVersionAdmin add form (add_fieldsets): no edges, no deprecated_at, no
\* api_prefix.
CreateWebVersion(v) ==
    /\ result = NoResult
    /\ v \notin DOMAIN web_versions
    /\ web_versions' = [x \in DOMAIN web_versions \cup {v} |->
                          IF x = v
                          THEN [deprecated_at |-> {}, previous_versions |-> {},
                                incompatible_previous_versions |-> {},
                                api_prefix |-> {}]
                          ELSE web_versions[x]]
    /\ UNCHANGED <<now, web_apis, version_controller, version_name, app_versions, result>>

\* WebVersionAdmin.formfield_for_manytomany: the choices of both edge fields
\* are the rows with version_id < object_id.
EdgeChoices(v) == { p \in DOMAIN web_versions : p < v }

\* Change form of version v saving previous_versions.
SetPreviousVersions(v, S) ==
    /\ result = NoResult
    /\ v \in DOMAIN web_versions
    /\ S \subseteq EdgeChoices(v)
    /\ S # web_versions[v].previous_versions
    /\ web_versions' = [web_versions EXCEPT ![v].previous_versions = S]
    /\ EdgeCount(web_versions') <= MaxEdges
    /\ UNCHANGED <<now, web_apis, version_controller, version_name, app_versions, result>>

\* Change form of version v saving incompatible_previous_versions.
SetIncompatiblePreviousVersions(v, S) ==
    /\ result = NoResult
    /\ v \in DOMAIN web_versions
    /\ S \subseteq EdgeChoices(v)
    /\ S # web_versions[v].incompatible_previous_versions
    /\ web_versions' = [web_versions EXCEPT ![v].incompatible_previous_versions = S]
    /\ EdgeCount(web_versions') <= MaxEdges
    /\ UNCHANGED <<now, web_apis, version_controller, version_name, app_versions, result>>

\* Change form of version v saved with the version_id field (the primary
\* key, listed in fieldsets) changed to an unused id w.  Model.save() finds no
\* row w to update and inserts one with the form's values; row v stays.  The
\* edge fields were validated against the choices of the form of v, and
\* save_m2m() gives them to the new row.
ChangeVersionId(v, w, P, I) ==
    /\ result = NoResult
    /\ v \in DOMAIN web_versions
    /\ w \notin DOMAIN web_versions
    /\ P \subseteq EdgeChoices(v)
    /\ I \subseteq EdgeChoices(v)
    /\ web_versions' = [x \in DOMAIN web_versions \cup {w} |->
                          IF x = w
                          THEN [web_versions[v] EXCEPT
                                  !.previous_versions = P,
                                  !.incompatible_previous_versions = I]
                          ELSE web_versions[x]]
    /\ EdgeCount(web_versions') <= MaxEdges
    /\ UNCHANGED <<now, web_apis, version_controller, version_name, app_versions, result>>

\* A deprecate that stamps every selected version, expired or not.
DeprecateVersions_restamping(queryset) ==
    /\ result = NoResult
    /\ queryset # {}
    /\ queryset \subseteq DOMAIN web_versions
    /\ web_versions' = [v \in DOMAIN web_versions |->
                          IF v \in queryset
                          THEN [web_versions[v] EXCEPT !.deprecated_at = {now}]
                          ELSE web_versions[v]]
    /\ UNCHANGED <<now, web_apis, version_controller, version_name, app_versions, result>>

\* DepreciableObjectMixin.deprecate on a queryset of versions.
DeprecateVersions(queryset) ==
    /\ result = NoResult
    /\ queryset # {}
    /\ queryset \subseteq DOMAIN web_versions
    /\ web_versions' = [v \in DOMAIN web_versions |->
                          IF v \in queryset /\ ~_is_deprecated_time(web_versions[v])
                          THEN [web_versions[v] EXCEPT !.deprecated_at = {now}]
                          ELSE web_versions[v]]
    /\ UNCHANGED <<now, web_apis, version_controller, version_name, app_versions, result>>

\* DepreciableObjectMixin.republish on a queryset of versions.
RepublishVersions(queryset) ==
    /\ result = NoResult
    /\ queryset # {}
    /\ queryset \subseteq DOMAIN web_versions
    /\ web_versions' = [v \in DOMAIN web_versions |->
                          IF v \in queryset
                          THEN [web_versions[v] EXCEPT !.deprecated_at = {}]
                          ELSE web_versions[v]]
    /\ UNCHANGED <<now, web_apis, version_controller, version_name, app_versions, result>>

\* django.utils.timezone.now() moves on.
Tick ==
    /\ result = NoResult
    /\ now < MaxTime
    /\ now' = now + 1
    /\ UNCHANGED <<web_versions, web_apis, version_controller, version_name, app_versions, result>>

\* ------------------------------------------------- queries on the graph

\* show_coming_soon / coming_soon() of version v.
CallComingSoon(v) ==
    /\ result = NoResult
    /\ v \in DOMAIN web_versions
    /\ result' = [op |-> "coming_soon", arg |-> v, ret |-> Ok(coming_soon(v))]
    /\ UNCHANGED <<now, web_versions, web_apis, version_controller, version_name, app_versions>>

\* available() of version v.
CallAvailable(v) ==
    /\ result = NoResult
    /\ v \in DOMAIN web_versions
    /\ result' = [op |-> "available", arg |-> v, ret |-> available(v)]
    /\ UNCHANGED <<now, web_versions, web_apis, version_controller, version_name, app_versions>>

\* ------------------------------------------------- WebVersion.get_version_uri

\* A str is a sequence of one-character strings.
Digits == {"0", "2", "3", "4"}
Alphabet == Digits \cup {"."}

\* Longest version_name drawn.
MaxNameLen == 6

\* A compiled pattern is a sequence of tokens: "d+" is \d+, any other token is
\* that literal character ("." is the escaped dot).
main_version == <<"d+", ".", "0", ".", "0">>
sub_version == <<"d+", ".", "d+", ".", "0">>
tiny_version == <<"d+", ".", "d+", ".", "d+">>

RECURSIVE MatchEnds(_, _, _)
\* The positions at which a match of pat beginning at position i of s can end
\* (one past its last character); backtracking tries them all.
MatchEnds(pat, s, i) ==
    IF pat = <<>> THEN {i}
    ELSE IF Head(pat) = "d+"
    THEN UNION { MatchEnds(Tail(pat), s, j) :
                   j \in { j \in (i + 1)..(Len(s) + 1) :
                             \A k \in i..(j - 1) : s[k] \in Digits } }
    ELSE IF i <= Len(s) /\ s[i] = Head(pat) THEN MatchEnds(Tail(pat), s, i + 1)
    ELSE {}

\* re.Pattern.match: a match at the beginning of s, not necessarily to its end.
re_match(pat, s) == MatchEnds(pat, s, 1) # {}

\* re.Pattern.search, as RegexValidator applies it: a match anywhere in s.
re_search(pat, s) == \E i \in 1..(Len(s) + 1) : MatchEnds(pat, s, i) # {}

DotPositions(s) == { i \in 1..Len(s) : s[i] = "." }

Min(S) == CHOOSE x \in S : \A y \in S : x <= y
Max(S) == CHOOSE x \in S : \A y \in S : x >= y

\* s.partition('.')[0]: what precedes the first dot (all of s without dot).
partition_first(s) ==
    IF DotPositions(s) = {} THEN s ELSE SubSeq(s, 1, Min(DotPositions(s)) - 1)

\* s.rpartition('.')[-1]: what follows the last dot (all of s without dot).
rpartition_last(s) ==
    IF DotPositions(s) = {} THEN s ELSE SubSeq(s, Max(DotPositions(s)) + 1, Len(s))

\* WebVersion.get_version_uri
get_version_uri(name) ==
    IF re_match(main_version, name) THEN <<"v">> \o partition_first(name)
    ELSE IF re_match(sub_version, name) THEN <<"v">> \o rpartition_last(name)
    ELSE IF re_match(tiny_version, name) THEN <<"v">> \o name
    ELSE <<"v">> \o name

\* BaseVersion.version_name: the values its RegexValidator(r'\d+\.\d+\.\d+')
\* lets through.
VersionNames ==
    { s \in UNION { [1..n -> Alphabet] : n \in 0..MaxNameLen } :
        re_search(tiny_version, s) }

\* get_version_uri() of a version named version_name.
CallGetVersionUri ==
    /\ result = NoResult
    /\ result' = [op |-> "get_version_uri", arg |-> version_name,
                  ret |-> Ok(get_version_uri(version_name))]
    /\ UNCHANGED <<now, web_versions, web_apis, version_controller, version_name, app_versions>>

\* ------------------------------------------------------------------ WebAPI

\* Names an instance of WebAPI answers to: the fields and methods of
\* DepreciableObjectMixin and WebAPI, and the reverse accessors onto it.
WebAPIAttrs ==
    { "deprecated_at", "_is_deprecated_time", "deprecated", "get_deprecated_time",
      "show_deprecated_time", "show_deprecated", "deprecate", "republish",
      "web_version", "view_code_name", "view_name", "view_url",
      "absolute_view_url", "is_api", "new_compatible_view", "supported_views",
      "available", "url", "updates", "last_update", "available_updates", "clean",
      "last_available_update", "coming_soon", "app_versions_using" }

\* bool() of a bound method object such as self.deprecated (no call).
BoundMethodTruth == TRUE

\* WebAPI.coming_soon
WebAPI_coming_soon(c) == coming_soon(web_apis[c].web_version)

\* WebAPI.available (property):
\*   not self.deprecated and self.web_version.available() and not self.coming_soon()
\* `self.deprecated` is the method itself, not its value.
WebAPI_available(c) ==
    IF BoundMethodTruth THEN Ok(FALSE)
    ELSE LET a == available(web_apis[c].web_version)
         IN IF a.exc # "" THEN a
            ELSE IF ~a.val THEN Ok(FALSE)
            ELSE Ok(~WebAPI_coming_soon(c))

\* Characters of the paths considered: a letter, the slash, and a space
\* (which the character class of the view-path validators leaves out).
PathAlphabet == {"a", "/", " "}
\* Longest path considered.
MaxPathLen == 2

\* The class [A-Za-z0-9/-_\.] of the view-path validators: letters, digits,
\* the range from "/" to "_", and the dot.
ViewPathClass == {"a", "/", "."} \cup Digits

\* view_path_without_start_slash_validator: re.search(r"^[A-Za-z0-9/-_\.]+")
view_path_without_start_slash_validator(s) ==
    Len(s) >= 1 /\ s[1] \in ViewPathClass

\* view_path_with_start_slash_validator: re.search(r"^/[A-Za-z0-9/-_\.]+")
view_path_with_start_slash_validator(s) ==
    Len(s) >= 2 /\ s[1] = "/" /\ s[2] \in ViewPathClass

\* view_path_validators: a field runs every validator of the tuple.
view_path_validators(s) ==
    /\ view_path_without_start_slash_validator(s)
    /\ view_path_with_start_slash_validator(s)

\* The non-empty paths over PathAlphabet, and an optional one.
Paths == UNION { [1..n -> PathAlphabet] : n \in 1..MaxPathLen }
OptionalPaths == {{}} \cup { {p} : p \in Paths }

\* _append_slash(url)
_append_slash(u) ==
    IF Len(u) > 0 /\ u[Len(u)] = "/" THEN u ELSE u \o <<"/">>

\* WebVersion.get_complete_prefix(is_api) of version v, whose version_name is
\* the variable version_name; {} is the None of the bare `return`.
get_complete_prefix(v, is_api) ==
    IF is_api
    THEN IF web_versions[v].api_prefix = {} THEN {}
         ELSE { _append_slash(p) \o _append_slash(get_version_uri(version_name)) :
                  p \in web_versions[v].api_prefix }
    ELSE { _append_slash(get_version_uri(version_name)) }

\* WebAPI.url (property); an absent URL is {}.  None + str raises TypeError.
url(c) ==
    IF web_apis[c].absolute_view_url # {} THEN Ok(web_apis[c].absolute_view_url)
    ELSE IF web_apis[c].view_url # {}
    THEN LET prefix == get_complete_prefix(web_apis[c].web_version, web_apis[c].is_api)
         IN IF prefix = {} THEN Raise("TypeError")
            ELSE Ok({ p \o u : p \in prefix, u \in web_apis[c].view_url })
    ELSE Ok({})

\* Depth of Python's call stack at which a further call raises RecursionError.
RecursionLimit == 5

RECURSIVE updates_at(_, _)
\* WebAPI.updates, called at stack depth d.
updates_at(c, d) ==
    IF d > RecursionLimit THEN Raise("RecursionError")
    ELSE IF web_apis[c].new_compatible_view = {} THEN Ok(<<>>)
    ELSE LET n == CHOOSE x \in web_apis[c].new_compatible_view : TRUE
             rest == updates_at(n, d + 1)
         IN IF rest.exc # "" THEN rest ELSE Ok(<<n>> \o rest.val)

updates(c) == updates_at(c, 1)

\* WebAPI.last_update: the last of updates(), None ({}) when there is none.
last_update(c) ==
    LET u == updates(c)
    IN IF u.exc # "" THEN u
       ELSE IF u.val # <<>> THEN Ok({u.val[Len(u.val)]}) ELSE Ok({})

\* WebAPI.available_updates
available_updates(c) ==
    IF web_apis[c].new_compatible_view = {} THEN Ok(<<>>)
    ELSE LET n == CHOOSE x \in web_apis[c].new_compatible_view : TRUE
             a == available(web_apis[n].web_version)
         IN IF a.exc # "" THEN a
            ELSE IF ~a.val THEN Ok(<<>>)
            ELSE LET rest == updates_at(n, 2)
                 IN IF rest.exc # "" THEN rest ELSE Ok(<<n>> \o rest.val)

RECURSIVE last_available_walk(_, _)
\* The while loop of last_available_update at record `update`; `seen` are the
\* records the loop has already stood on (standing on one again, the loop
\* never ends).
last_available_walk(update, seen) ==
    IF web_apis[update].new_compatible_view = {} THEN Raise("AttributeError")
    ELSE LET n == CHOOSE x \in web_apis[update].new_compatible_view : TRUE
             a == WebAPI_available(n)
         IN IF a.exc # "" THEN a
            ELSE IF ~a.val THEN Ok({update})
            ELSE IF n \in seen THEN Raise("(never returns)")
            ELSE last_available_walk(n, seen \cup {n})

\* WebAPI.last_available_update
last_available_update(c) ==
    LET a == WebAPI_available(c)
    IN IF a.exc # "" THEN a
       ELSE IF ~a.val THEN Ok({})
       ELSE last_available_walk(c, {c})

\* ------------------------------------------------------ VersionControlMixin

\* What a gated request ends with.  ViewCalled: the wrapped handler (func, or
\* super().dispatch) ran.  ReturnedNone: the gate returned None and the
\* handler did not run.  Raised: an exception left the gate.
ViewCalled(warned) == [kind |-> "ViewCalled", detail |-> <<>>, warned |-> warned]
ReturnedNone(warned) == [kind |-> "ReturnedNone", detail |-> <<>>, warned |-> warned]
PermanentRedirect(u) == [kind |-> "PermanentRedirect", detail |-> u, warned |-> FALSE]
Gone == [kind |-> "Gone", detail |-> <<>>, warned |-> FALSE]
TooEarly == [kind |-> "TooEarly", detail |-> <<>>, warned |-> FALSE]
NotFound == [kind |-> "NotFound", detail |-> <<>>, warned |-> FALSE]
Raised(e) == [kind |-> "Raised", detail |-> <<e>>, warned |-> FALSE]

\* A VersionControlMixin object `self`:
\*   view_code, require_register  the attributes set on it;
\*   has_web_api   hasattr(self, '_web_api');
\*   saved         self._web_api was loaded from the store (it has a primary
\*                 key), as opposed to built in memory by WebAPI(...).
\* _final_object is False on every object the package builds.

\* VersionControlMixin._exists
_exists(self) == self.view_code \in DOMAIN web_apis

\* VersionControlMixin.web_api (property).  refresh_from_db() of an instance
\* without primary key finds no row: DoesNotExist.
web_api(self) ==
    IF ~self.has_web_api THEN Raise("RuntimeError")
    ELSE IF _exists(self) /\ ~self.saved THEN Raise("DoesNotExist")
    ELSE Ok(TRUE)

\* VersionControlMixin.refresh_version
refresh_version(self) ==
    IF _exists(self) /\ ~self.saved THEN Raise("DoesNotExist") ELSE Ok(TRUE)

\* VersionControlMixin.available
VersionControlMixin_available(self) ==
    IF ~_exists(self) THEN Ok(FALSE)
    ELSE LET w == web_api(self)
         IN IF w.exc # "" THEN w ELSE WebAPI_available(self.view_code)

\* VersionControlMixin.not_registered
not_registered(self) ==
    IF self.require_register
    THEN LET w == web_api(self)
         IN IF w.exc # "" THEN Raised(w.exc) ELSE NotFound
    ELSE ReturnedNone(TRUE)

\* VersionControlMixin.control_version; a None return is ReturnedNone.
control_version(self) ==
    LET a == VersionControlMixin_available(self)
    IN IF a.exc # "" THEN Raised(a.exc)
       ELSE IF a.val THEN ReturnedNone(FALSE)
       ELSE IF ~_exists(self) THEN not_registered(self)
       ELSE LET w == web_api(self)
                c == self.view_code
            IN IF w.exc # "" THEN Raised(w.exc)
               ELSE IF "is_deprecated" \notin WebAPIAttrs THEN Raised("AttributeError")
               ELSE IF _is_deprecated_time(web_apis[c])
               THEN IF web_apis[c].new_compatible_view # {}
                    THEN LET n == CHOOSE x \in web_apis[c].new_compatible_view : TRUE
                         IN IF url(n).exc # "" THEN Raised(url(n).exc)
                            ELSE IF url(n).val # {}
                            THEN PermanentRedirect(CHOOSE u \in url(n).val : TRUE)
                            ELSE Gone
                    ELSE Gone
               ELSE IF WebAPI_coming_soon(c) THEN TooEarly
               ELSE ReturnedNone(FALSE)

\* version_control.decorator.wrapper
wrapper(self) ==
    LET r == refresh_version(self)
        a == VersionControlMixin_available(self)
    IN IF r.exc # "" THEN Raised(r.exc)
       ELSE IF a.exc # "" THEN Raised(a.exc)
       ELSE IF ~a.val THEN control_version(self)
       ELSE ViewCalled(FALSE)

\* VersionControlMixin.dispatch
dispatch(self) ==
    LET a == VersionControlMixin_available(self)
        res == control_version(self)
    IN IF a.exc # "" THEN Raised(a.exc)
       ELSE IF ~a.val /\ res.kind # "ReturnedNone" THEN res
       ELSE ViewCalled(~a.val /\ res.warned)

\* ------------------------------------------- administrative surface: WebAPI

\* The absolute URL an administrator gives record c.
AbsoluteUrl(c) == <<"https://x/y", c>>

\* WebAPIAdmin add form: a record bound to an existing version (PROTECT
\* foreign key), with or without an absolute URL, view_url left empty and
\* is_api at its default.
CreateWebAPI(c, v, u) ==
    /\ result = NoResult
    /\ c \notin DOMAIN web_apis
    /\ v \in DOMAIN web_versions
    /\ u \in {{}, {AbsoluteUrl(c)}}
    /\ web_apis' = [x \in DOMAIN web_apis \cup {c} |->
                      IF x = c
                      THEN [web_version |-> v, deprecated_at |-> {},
                            new_compatible_view |-> {}, absolute_view_url |-> u,
                            view_url |-> {}, is_api |-> FALSE]
                      ELSE web_apis[x]]
    /\ UNCHANGED <<now, web_versions, version_controller, version_name, app_versions, result>>

\* WebAPIAdmin change form saving new_compatible_view (any record, or none).
SetNewCompatibleView(c, n) ==
    /\ result = NoResult
    /\ c \in DOMAIN web_apis
    /\ n \subseteq DOMAIN web_apis
    /\ Cardinality(n) <= 1
    /\ n # web_apis[c].new_compatible_view
    /\ web_apis' = [web_apis EXCEPT ![c].new_compatible_view = n]
    /\ UNCHANGED <<now, web_versions, version_controller, version_name, app_versions, result>>

\* WebAPIAdmin change form saving deprecated_at (any date, or none).
SetWebAPIDeprecatedAt(c, d) ==
    /\ result = NoResult
    /\ c \in DOMAIN web_apis
    /\ d \subseteq Times
    /\ Cardinality(d) <= 1
    /\ d # web_apis[c].deprecated_at
    /\ web_apis' = [web_apis EXCEPT ![c].deprecated_at = d]
    /\ UNCHANGED <<now, web_versions, version_controller, version_name, app_versions, result>>

\* ------------------------------------------------------------- chain walks

CallUpdates(c) ==
    /\ result = NoResult
    /\ c \in DOMAIN web_apis
    /\ result' = [op |-> "updates", arg |-> c, ret |-> updates(c)]
    /\ UNCHANGED <<now, web_versions, web_apis, version_controller, version_name, app_versions>>

CallLastUpdate(c) ==
    /\ result = NoResult
    /\ c \in DOMAIN web_apis
    /\ result' = [op |-> "last_update", arg |-> c, ret |-> last_update(c)]
    /\ UNCHANGED <<now, web_versions, web_apis, version_controller, version_name, app_versions>>

CallAvailableUpdates(c) ==
    /\ result = NoResult
    /\ c \in DOMAIN web_apis
    /\ result' = [op |-> "available_updates", arg |-> c, ret |-> available_updates(c)]
    /\ UNCHANGED <<now, web_versions, web_apis, version_controller, version_name, app_versions>>

CallLastAvailableUpdate(c) ==
    /\ result = NoResult
    /\ c \in DOMAIN web_apis
    /\ result' = [op |-> "last_available_update", arg |-> c,
                  ret |-> last_available_update(c)]
    /\ UNCHANGED <<now, web_versions, web_apis, version_controller, version_name, app_versions>>

\* The url property of record c is read.
CallUrl(c) ==
    /\ result = NoResult
    /\ c \in DOMAIN web_apis
    /\ result' = [op |-> "url", arg |-> c, ret |-> url(c)]
    /\ UNCHANGED <<now, web_versions, web_apis, version_controller, version_name, app_versions>>

\* -------------------------------------------------------------- AppVersion

\* AppVersion.supported: the loop returns True at the first available
\* required record, and the statement after the loop returns True as well.
supported(a) ==
    LET required == app_versions[a].web_apis_required
    IN IF \E c \in required : WebAPI_available(c).exc # ""
       THEN Raise((CHOOSE r \in { WebAPI_available(c) : c \in required } : r.exc # "").exc)
       ELSE IF \E c \in required : WebAPI_available(c).val THEN Ok(TRUE)
       ELSE Ok(TRUE)

\* AppVersion.deprecated: super().deprecated() or not self.supported(); the
\* super() method is DepreciableObjectMixin.deprecated.
AppVersion_deprecated(a) ==
    IF _is_deprecated_time(app_versions[a]) THEN Ok(TRUE)
    ELSE LET s == supported(a)
         IN IF s.exc # "" THEN s ELSE Ok(~s.val)

\* AppVersionAdmin add form: no deprecated_at, no dependency yet.
CreateAppVersion(a) ==
    /\ result = NoResult
    /\ a \notin DOMAIN app_versions
    /\ app_versions' = [x \in DOMAIN app_versions \cup {a} |->
                          IF x = a
                          THEN [deprecated_at |-> {}, web_apis_required |-> {}]
                          ELSE app_versions[x]]
    /\ UNCHANGED <<now, web_versions, web_apis, version_controller, version_name, result>>

\* WebAPIRequiredByAppInline of the change form of app version a: the rows of
\* WebAPIRequiredByApp of a become those of the records S.
SetWebApisRequired(a, S) ==
    /\ result = NoResult
    /\ a \in DOMAIN app_versions
    /\ S \subseteq DOMAIN web_apis
    /\ S # app_versions[a].web_apis_required
    /\ app_versions' = [app_versions EXCEPT ![a].web_apis_required = S]
    /\ UNCHANGED <<now, web_versions, web_apis, version_controller, version_name, result>>

\* DepreciableObjectMixin.deprecate on a queryset of app versions.
DeprecateAppVersions(queryset) ==
    /\ result = NoResult
    /\ queryset # {}
    /\ queryset \subseteq DOMAIN app_versions
    /\ app_versions' = [a \in DOMAIN app_versions |->
                          IF a \in queryset /\ ~_is_deprecated_time(app_versions[a])
                          THEN [app_versions[a] EXCEPT !.deprecated_at = {now}]
                          ELSE app_versions[a]]
    /\ UNCHANGED <<now, web_versions, web_apis, version_controller, version_name, result>>

\* DepreciableObjectMixin.republish on a queryset of app versions.
RepublishAppVersions(queryset) ==
    /\ result = NoResult
    /\ queryset # {}
    /\ queryset \subseteq DOMAIN app_versions
    /\ app_versions' = [a \in DOMAIN app_versions |->
                          IF a \in queryset
                          THEN [app_versions[a] EXCEPT !.deprecated_at = {}]
                          ELSE app_versions[a]]
    /\ UNCHANGED <<now, web_versions, web_apis, version_controller, version_name, result>>

\* deprecated() of app version a.
CallAppVersionDeprecated(a) ==
    /\ result = NoResult
    /\ a \in DOMAIN app_versions
    /\ result' = [op |-> "AppVersion.deprecated", arg |-> a,
                  ret |-> AppVersion_deprecated(a)]
    /\ UNCHANGED <<now, web_versions, web_apis, version_controller, version_name, app_versions>>

\* supported() of app version a.
CallSupported(a) ==
    /\ result = NoResult
    /\ a \in DOMAIN app_versions
    /\ result' = [op |-> "supported", arg |-> a, ret |-> supported(a)]
    /\ UNCHANGED <<now, web_versions, web_apis, version_controller, version_name, app_versions>>

\* ---------------------------------------------------------------- the gate

\* VersionControlMixin.get_base_web_api for view code c.  An existing record
\* whose is_api (a bool) differs from self._is_api is saved with that value;
\* with _is_api None the save puts NULL into a NOT NULL column.
get_base_web_api(c, is_api_none) ==
    IF c \in DOMAIN web_apis /\ is_api_none THEN Raise("IntegrityError") ELSE Ok(TRUE)

\* version_control(view_code, view_name, require_register, is_api): builds
\* the controller the wrapper closes over.
BuildDecorator(c, require_register, is_api_none) ==
    /\ result = NoResult
    /\ ~version_controller.built
    /\ LET g == get_base_web_api(c, is_api_none)
       IN IF g.exc # ""
          THEN /\ result' = [op |-> "version_control", arg |-> c, ret |-> Raised(g.exc)]
               /\ UNCHANGED version_controller
          ELSE /\ version_controller' =
                     [built |-> TRUE, view_code |-> c,
                      require_register |-> require_register,
                      has_web_api |-> TRUE, saved |-> c \in DOMAIN web_apis]
               /\ UNCHANGED result
    /\ UNCHANGED <<now, web_versions, web_apis, version_name, app_versions>>

\* A request reaches the decorated view.
CallWrapper ==
    /\ result = NoResult
    /\ version_controller.built
    /\ result' = [op |-> "wrapper", arg |-> version_controller.view_code,
                  require_register |-> version_controller.require_register,
                  ret |-> wrapper(version_controller)]
    /\ UNCHANGED <<now, web_versions, web_apis, version_controller, version_name, app_versions>>

\* A request reaches a class-based view using the mixin: a fresh view object.
\* prepared: the view called get_base_web_api() before dispatch.
Dispatch(c, require_register, prepared, is_api_none) ==
    /\ result = NoResult
    /\ LET g == IF prepared THEN get_base_web_api(c, is_api_none) ELSE Ok(TRUE)
           self == [built |-> TRUE, view_code |-> c,
                    require_register |-> require_register,
                    has_web_api |-> prepared, saved |-> c \in DOMAIN web_apis]
       IN result' = [op |-> "dispatch", arg |-> c,
                     require_register |-> require_register, prepared |-> prepared,
                     ret |-> IF g.exc # "" THEN Raised(g.exc) ELSE dispatch(self)]
    /\ UNCHANGED <<now, web_versions, web_apis, version_controller, version_name, app_versions>>

\* The caller takes the value (or the exception) of the call just made.
Return ==
    /\ result # NoResult
    /\ result' = NoResult
    /\ UNCHANGED <<now, web_versions, web_apis, version_controller, version_name, app_versions>>

\* ---------------------------------------------------------- specifications

EmptyFunction == [x \in {} |-> x]

NoController == [built |-> FALSE]

Init ==
    /\ now = 0
    /\ web_versions = EmptyFunction
    /\ web_apis = EmptyFunction
    /\ version_controller = NoController
    /\ version_name = <<>>
    /\ app_versions = EmptyFunction
    /\ result = NoResult

NextGraph ==
    \/ \E v \in VersionIds : CreateWebVersion(v)
    \/ \E v \in VersionIds : \E S \in SUBSET (1..(v - 1)) : SetPreviousVersions(v, S)
    \/ \E v \in VersionIds : \E S \in SUBSET (1..(v - 1)) :
          SetIncompatiblePreviousVersions(v, S)
    \/ \E Q \in SUBSET VersionIds : DeprecateVersions(Q)
    \/ \E Q \in SUBSET VersionIds : RepublishVersions(Q)
    \/ Tick
    \/ \E v \in VersionIds : CallComingSoon(v)
    \/ \E v \in VersionIds : CallAvailable(v)
    \/ Return

SpecGraph == Init /\ [][NextGraph]_vars

\* The version administration alone: add form, change form (edges and
\* version_id), bulk actions.
NextAdmin ==
    \/ \E v \in VersionIds : CreateWebVersion(v)
    \/ \E v \in VersionIds : \E S \in SUBSET VersionIds : SetPreviousVersions(v, S)
    \/ \E v \in VersionIds : \E S \in SUBSET VersionIds :
          SetIncompatiblePreviousVersions(v, S)
    \/ \E v, w \in VersionIds : \E P, I \in SUBSET VersionIds :
          ChangeVersionId(v, w, P, I)
    \/ \E Q \in SUBSET VersionIds : DeprecateVersions(Q)
    \/ \E Q \in SUBSET VersionIds : RepublishVersions(Q)
    \/ Tick

SpecAdmin == Init /\ [][NextAdmin]_vars

\* Versions and view codes of the gate and of the chain walks.
MaxGateVersion == 2
MaxGateApi == 2
MaxApi == 3
\* View codes 1..MaxGatedCode are the ones requests are gated for.
MaxGatedCode == 1

AdminGate(codes) ==
    \/ \E v \in 1..MaxGateVersion : CreateWebVersion(v)
    \/ \E v \in 1..MaxGateVersion : \E S \in SUBSET (1..(v - 1)) :
          SetIncompatiblePreviousVersions(v, S)
    \/ \E Q \in SUBSET (1..MaxGateVersion) : DeprecateVersions(Q)
    \/ \E Q \in SUBSET (1..MaxGateVersion) : RepublishVersions(Q)
    \/ Tick
    \/ \E c \in codes : \E v \in 1..MaxGateVersion :
          \E u \in {{}, {AbsoluteUrl(c)}} : CreateWebAPI(c, v, u)
    \/ \E c \in codes : \E n \in {{}} \cup {{d} : d \in codes} :
          SetNewCompatibleView(c, n)

Next ==
    \/ AdminGate(1..MaxGateApi)
    \/ \E c \in 1..MaxGateApi : \E d \in {{}} \cup {{t} : t \in Times} :
          SetWebAPIDeprecatedAt(c, d)
    \/ \E c \in 1..MaxGatedCode : \E rr, n \in BOOLEAN : BuildDecorator(c, rr, n)
    \/ CallWrapper
    \/ \E c \in 1..MaxGatedCode : \E rr, p, n \in BOOLEAN : Dispatch(c, rr, p, n)
    \/ Return

Spec == Init /\ [][Next]_vars

NextChain ==
    \/ AdminGate(1..MaxApi)
    \/ \E c \in 1..MaxApi : CallUpdates(c)
    \/ \E c \in 1..MaxApi : CallLastUpdate(c)
    \/ \E c \in 1..MaxApi : CallAvailableUpdates(c)
    \/ \E c \in 1..MaxApi : CallLastAvailableUpdate(c)
    \/ \E c \in 1..MaxGatedCode : \E rr, p, n \in BOOLEAN : Dispatch(c, rr, p, n)
    \/ Return

SpecChain == Init /\ [][NextChain]_vars

\* A version row under any name its validator accepts.
InitUri ==
    /\ now = 0
    /\ web_versions = EmptyFunction
    /\ web_apis = EmptyFunction
    /\ version_controller = NoController
    /\ version_name \in VersionNames
    /\ app_versions = EmptyFunction
    /\ result = NoResult

NextUri ==
    \/ CallGetVersionUri
    \/ Return

SpecUri == InitUri /\ [][NextUri]_vars

\* App versions 1..MaxAppVersion.
MaxAppVersion == 1

NextApp ==
    \/ AdminGate(1..MaxGateApi)
    \/ \E c \in 1..MaxGateApi : \E d \in {{}} \cup {{t} : t \in Times} :
          SetWebAPIDeprecatedAt(c, d)
    \/ \E a \in 1..MaxAppVersion : CreateAppVersion(a)
    \/ \E a \in 1..MaxAppVersion : \E S \in SUBSET (1..MaxGateApi) :
          SetWebApisRequired(a, S)
    \/ \E Q \in SUBSET (1..MaxAppVersion) : DeprecateAppVersions(Q)
    \/ \E Q \in SUBSET (1..MaxAppVersion) : RepublishAppVersions(Q)
    \/ \E a \in 1..MaxAppVersion : CallAppVersionDeprecated(a)
    \/ \E a \in 1..MaxAppVersion : CallSupported(a)
    \/ Return

SpecApp == Init /\ [][NextApp]_vars

\* Length of the version names of the URL specification.
UrlNameLen == 5

\* One version row under a name of UrlNameLen characters, with any api_prefix,
\* and one record bound to it with any view_url, is_api and absolute URL.
InitUrl ==
    /\ version_name \in { s \in [1..UrlNameLen -> Alphabet] : re_search(tiny_version, s) }
    /\ now = 0
    /\ \E ap \in OptionalPaths :
          web_versions = [v \in {1} |->
                            [deprecated_at |-> {}, previous_versions |-> {},
                             incompatible_previous_versions |-> {},
                             api_prefix |-> ap]]
    /\ \E vu \in OptionalPaths, u \in {{}, {AbsoluteUrl(1)}}, b \in BOOLEAN :
          web_apis = [c \in {1} |->
                        [web_version |-> 1, deprecated_at |-> {},
                         new_compatible_view |-> {}, absolute_view_url |-> u,
                         view_url |-> vu, is_api |-> b]]
    /\ version_controller = NoController
    /\ app_versions = EmptyFunction
    /\ result = NoResult

NextUrl ==
    \/ \E c \in {1} : CallUrl(c)
    \/ Return

SpecUrl == InitUrl /\ [][NextUrl]_vars

\* ------------------------------------------------------------------ claims

\* The gate has just answered a request for result.arg: through the decorator
\* wrapper, or through dispatch of a view that fetched its record first.
GateAnswered ==
    \/ result.op = "wrapper"
    \/ result.op = "dispatch" /\ result.prepared

VersionOf(c) == web_apis[c].web_version

\* Record c is not expired itself and its version is available and not coming
\* soon.
Live(c) ==
    /\ ~_is_deprecated_time(web_apis[c])
    /\ available(VersionOf(c)) = Ok(TRUE)
    /\ ~coming_soon(VersionOf(c))

GatingKinds == {"PermanentRedirect", "Gone", "TooEarly"}

\* C1: a request for a registered endpoint that is not expired and whose
\* version is available and not coming soon reaches the wrapped handler.
C1_AvailableReachesHandler ==
    (GateAnswered /\ result.arg \in DOMAIN web_apis /\ Live(result.arg))
        => result.ret.kind = "ViewCalled"

\* C2: a request for a registered endpoint whose version is deprecated, coming
\* soon or blocked by an incompatible predecessor ends in a permanent
\* redirect, gone or too early: never in the handler, never in an empty result.
C2_UnavailableIsGated ==
    (/\ GateAnswered
     /\ result.arg \in DOMAIN web_apis
     /\ \/ deprecated(VersionOf(result.arg))
        \/ coming_soon(VersionOf(result.arg))
        \/ available(VersionOf(result.arg)) # Ok(TRUE))
        => result.ret.kind \in GatingKinds

\* C3: for a chain E -> B -> F with E deprecated (by its own date or through
\* its version), B unavailable and F live with an absolute URL, the request
\* for E is redirected permanently to F's URL.
C3_RedirectToNearestLive ==
    (/\ GateAnswered
     /\ result.arg \in DOMAIN web_apis
     /\ \/ _is_deprecated_time(web_apis[result.arg])
        \/ deprecated(VersionOf(result.arg)))
        => \A b, f \in DOMAIN web_apis :
             (/\ Cardinality({result.arg, b, f}) = 3
              /\ web_apis[result.arg].new_compatible_view = {b}
              /\ web_apis[b].new_compatible_view = {f}
              /\ ~Live(b)
              /\ Live(f)
              /\ web_apis[f].absolute_view_url # {})
                 => result.ret = PermanentRedirect(AbsoluteUrl(f))

\* C4: a request for a registered endpoint without deprecation date of its
\* own and without successor, whose version's deprecated_at is past, is
\* answered gone.
C4_DeprecatedWithoutSuccessorIsGone ==
    (/\ GateAnswered
     /\ result.arg \in DOMAIN web_apis
     /\ _is_deprecated_time(web_versions[VersionOf(result.arg)])
     /\ web_apis[result.arg].new_compatible_view = {}
     /\ web_apis[result.arg].deprecated_at = {})
        => result.ret.kind = "Gone"

\* C5: with no record for the view code and require_register false, the gate
\* warns and the wrapped handler runs, on the decorator path and on the
\* dispatch path.
C5_UnregisteredSoftFail ==
    (/\ result.op \in {"wrapper", "dispatch"}
     /\ result.arg \notin DOMAIN web_apis
     /\ ~result.require_register)
        => (result.ret.kind = "ViewCalled" /\ result.ret.warned)

\* The solution of: f[n] iff some previous version p has f[p], or some
\* incompatible previous version p is not deprecated, where p is deprecated
\* iff Dep(p, f[p]).  On an acyclic graph there is exactly one.
ComingSoonTable(Dep(_, _)) ==
    CHOOSE f \in [DOMAIN web_versions -> BOOLEAN] :
        \A n \in DOMAIN web_versions :
            f[n] = (\/ \E p \in web_versions[n].previous_versions : f[p]
                    \/ \E p \in web_versions[n].incompatible_previous_versions :
                          ~Dep(p, f[p]))

ExpiredOnly(p, cs) == _is_deprecated_time(web_versions[p])
ExpiredAndNotComingSoon(p, cs) == _is_deprecated_time(web_versions[p]) /\ ~cs

\* C6 as stated: coming_soon(N) iff some previous version is coming soon or
\* some incompatible previous version is not expired by its timestamp.
C6_ComingSoonByTimestamp ==
    result.op = "coming_soon"
        => (/\ result.ret.exc = ""
            /\ result.ret.val = ComingSoonTable(ExpiredOnly)[result.arg])

\* C6 amended: coming_soon(N) iff some previous version is coming soon or some
\* incompatible previous version P is not deprecated, P being deprecated iff
\* it is expired and not itself coming soon; a version without edges is never
\* coming soon.
C6_ComingSoonByDeprecated ==
    result.op = "coming_soon"
        => (/\ result.ret.exc = ""
            /\ result.ret.val = ComingSoonTable(ExpiredAndNotComingSoon)[result.arg]
            /\ (/\ web_versions[result.arg].previous_versions = {}
                /\ web_versions[result.arg].incompatible_previous_versions = {})
                   => ~result.ret.val)

\* C6 witness: coming_soon() answered True for a version without previous
\* versions all of whose incompatible previous versions are expired.
C6_Witness ==
    /\ result.op = "coming_soon"
    /\ result.ret.val
    /\ web_versions[result.arg].previous_versions = {}
    /\ web_versions[result.arg].incompatible_previous_versions # {}
    /\ \A p \in web_versions[result.arg].incompatible_previous_versions :
          _is_deprecated_time(web_versions[p])

RECURSIVE ClaimedAvailable(_)
\* available(N) as C7 states it.
ClaimedAvailable(n) ==
    /\ ~deprecated(n)
    /\ ~coming_soon(n)
    /\ \A p \in web_versions[n].incompatible_previous_versions :
          deprecated(p) /\ ~ClaimedAvailable(p) /\ ~coming_soon(p)

\* C7: available(N) returns a boolean for every version, true iff N is not
\* deprecated, not coming soon, and every incompatible previous version is
\* deprecated, not available and not coming soon.
C7_AvailableIsBoolean ==
    result.op = "available"
        => (/\ result.ret.exc = ""
            /\ result.ret.val = ClaimedAvailable(result.arg))

Successor(c) == CHOOSE x \in web_apis[c].new_compatible_view : TRUE

RECURSIVE ChainLoops(_, _)
\* Following new_compatible_view from c for n more steps never meets a
\* record without successor.
ChainLoops(c, n) ==
    /\ web_apis[c].new_compatible_view # {}
    /\ (n = 0 \/ ChainLoops(Successor(c), n - 1))

OnCycle(c) == ChainLoops(c, Cardinality(DOMAIN web_apis))

RECURSIVE LastLive(_)
\* The last record reached from the live record c walking while the successor
\* is live (on a chain that ends).
LastLive(c) ==
    IF web_apis[c].new_compatible_view = {} THEN c
    ELSE IF ~Live(Successor(c)) THEN c
    ELSE LastLive(Successor(c))

\* C8: last_available_update of a live record on a chain that ends returns
\* the last live record of the walk and raises nothing, also when the walk
\* ends at a record without successor.
C8_LastAvailableUpdate ==
    (/\ result.op = "last_available_update"
     /\ Live(result.arg)
     /\ ~OnCycle(result.arg))
        => (/\ result.ret.exc = ""
            /\ result.ret.val = {LastLive(result.arg)})

\* C9: on a new_compatible_view cycle updates(), last_update() and
\* last_available_update() fail with GraphCycleError.
C9_CycleRaisesGraphCycleError ==
    (/\ result.op \in {"updates", "last_update", "last_available_update"}
     /\ OnCycle(result.arg))
        => result.ret.exc = "GraphCycleError"

\* The three components of a name of the form d+ . d+ . d+
Component(s, k) ==
    LET d1 == Min(DotPositions(s))
        d2 == Max(DotPositions(s))
    IN IF k = 1 THEN SubSeq(s, 1, d1 - 1)
       ELSE IF k = 2 THEN SubSeq(s, d1 + 1, d2 - 1)
       ELSE SubSeq(s, d2 + 1, Len(s))

\* A number written without leading zero.
Numeral(t) == /\ t # <<>>
              /\ \A i \in 1..Len(t) : t[i] \in Digits
              /\ (Len(t) > 1 => t[1] # "0")

\* s is X.Y.Z for three numerals.
SemVer(s) ==
    /\ Cardinality(DotPositions(s)) = 2
    /\ \A k \in 1..3 : Numeral(Component(s, k))

\* C10: the path segment of X.Y.Z is vX when Y = 0 and Z = 0, v followed by
\* the middle component Y when Z = 0 and Y # 0, and vX.Y.Z otherwise.
C10_VersionPathSegment ==
    (result.op = "get_version_uri" /\ SemVer(result.arg))
        => result.ret.val =
             (IF Component(result.arg, 2) = <<"0">> /\ Component(result.arg, 3) = <<"0">>
              THEN <<"v">> \o Component(result.arg, 1)
              ELSE IF Component(result.arg, 3) = <<"0">>
              THEN <<"v">> \o Component(result.arg, 2)
              ELSE <<"v">> \o result.arg)

\* s without its trailing slashes, and without its leading slashes.
RECURSIVE rstrip_slash(_)
rstrip_slash(s) ==
    IF Len(s) > 0 /\ s[Len(s)] = "/" THEN rstrip_slash(SubSeq(s, 1, Len(s) - 1))
    ELSE s

RECURSIVE lstrip_slash(_)
lstrip_slash(s) ==
    IF Len(s) > 0 /\ s[1] = "/" THEN lstrip_slash(Tail(s)) ELSE s

\* a and b joined with exactly one "/" between them.
JoinWithOneSlash(a, b) == rstrip_slash(a) \o <<"/">> \o lstrip_slash(b)

\* C11: for every endpoint whose absolute URL is absent and whose relative
\* path is present and accepted by the view-path validators, the resolved URL
\* is the version prefix joined to the relative path with exactly one "/" at
\* the join.
C11_UrlJoinsWithOneSlash ==
    (/\ result # NoResult
     /\ result.op = "url"
     /\ web_apis[result.arg].absolute_view_url = {}
     /\ web_apis[result.arg].view_url # {}
     /\ \A u \in web_apis[result.arg].view_url : view_path_validators(u))
    => LET c == result.arg
           prefix == get_complete_prefix(web_apis[c].web_version, web_apis[c].is_api)
       IN /\ result.ret.exc = ""
          /\ prefix # {}
          /\ result.ret.val = { JoinWithOneSlash(p, u) :
                                  p \in prefix, u \in web_apis[c].view_url }

\* C12: an app version is deprecated if and only if its own deprecation
\* timestamp has passed, or it has at least one required endpoint and none of
\* its required endpoints is available; with zero required endpoints it is
\* always supported.
C12_AppVersionDeprecated ==
    /\ (result # NoResult /\ result.op = "AppVersion.deprecated")
       => LET a == result.arg
              required == app_versions[a].web_apis_required
          IN /\ result.ret.exc = ""
             /\ result.ret.val =
                  (\/ _is_deprecated_time(app_versions[a])
                   \/ required # {} /\ \A c \in required : ~Live(c))
    /\ (/\ result # NoResult
        /\ result.op = "supported"
        /\ app_versions[result.arg].web_apis_required = {})
       => result.ret = Ok(TRUE)

\* The versions v points at, through edges of either type.
Edges(v) ==
    web_versions[v].previous_versions \cup web_versions[v].incompatible_previous_versions

RECURSIVE Descendants(_, _)
\* The versions reached from the set S in at most n further steps.
Descendants(S, n) ==
    IF n = 0 THEN S
    ELSE Descendants(S \cup UNION { Edges(x) : x \in S }, n - 1)

\* C13: after any sequence of administrative version creations and edge
\* edits, no version reaches itself through edges of either type.
C13_GraphStaysAcyclic ==
    \A v \in DOMAIN web_versions :
        v \notin Descendants(Edges(v), Cardinality(DOMAIN web_versions))

\* The controller a call of version_control makes now for the same view: its
\* record is the stored one when the store holds one.
FreshController ==
    [version_controller EXCEPT
        !.saved = (version_controller.view_code \in DOMAIN web_apis)]

\* C14: every gate call decides on the store's current state: the outcome of
\* a call through the decorator equals the outcome a freshly constructed gate
\* returns for the current state, whatever changed in the store since the
\* gate was constructed.
C14_GateDecidesOnCurrentState ==
    (result # NoResult /\ result.op = "wrapper")
    => result.ret = wrapper(FreshController)

\* Row obj is expired at time t: it has a timestamp strictly before t.
IsExpiredAt(obj, t) == obj.deprecated_at # {} /\ \A d \in obj.deprecated_at : d < t

\* The step republishes a selection holding v.
Republished(v) == \E Q \in SUBSET VersionIds : v \in Q /\ RepublishVersions(Q)

\* A Deprecate of the selection Q stamps the selected versions that are not
\* expired with the current time, which does not expire them at that instant,
\* and leaves everything else as it was.
DeprecateEffect(Q) ==
    /\ DOMAIN web_versions' = DOMAIN web_versions
    /\ \A v \in DOMAIN web_versions :
          IF v \in Q /\ ~IsExpiredAt(web_versions[v], now)
          THEN /\ web_versions'[v].deprecated_at = {now}
               /\ ~_is_deprecated_time(web_versions[v])'
               /\ web_versions'[v].previous_versions = web_versions[v].previous_versions
               /\ web_versions'[v].incompatible_previous_versions =
                     web_versions[v].incompatible_previous_versions
               /\ web_versions'[v].api_prefix = web_versions[v].api_prefix
          ELSE web_versions'[v] = web_versions[v]
    /\ UNCHANGED <<now, web_apis, app_versions>>

\* A stamped version keeps its timestamp, and is expired at every strictly
\* later time, until it is republished.
StampPersists ==
    \A v \in DOMAIN web_versions :
        web_versions[v].deprecated_at # {}
        => \/ /\ v \in DOMAIN web_versions'
              /\ web_versions'[v].deprecated_at = web_versions[v].deprecated_at
              /\ IsExpiredAt(web_versions[v], now') <=> _is_deprecated_time(web_versions[v])'
              /\ now' > now => _is_deprecated_time(web_versions[v])'
           \/ Republished(v)

====
